---- MODULE Spec2Model ----
(***************************************************************************)
(* A model of app.py ("This Day in History - Newspapers"): the query       *)
(* encoder, the cached fetcher, the result interpreter, the window builder *)
(* and the two-phase decade scanner decade_step_most_recent.               *)
(*                                                                         *)
(* Python values are tagged pairs <<type, value>>; a Python                *)
(* str whose characters the code inspects is a sequence of one-character   *)
(* strings; a calendar date is <<year, month, day>>.                       *)
(***************************************************************************)
EXTENDS Integers, Sequences, FiniteSets, TLC

(***************************************************************************)
(* Python values                                                           *)
(***************************************************************************)
None == <<"none", 0>>
PyInt(n) == <<"int", n>>
PyStr(s) == <<"str", s>>
PyList(s) == <<"list", s>>
PyDict(f) == <<"dict", f>>
PyDate(d) == <<"date", d>>
\* an exception propagating out of a call
Raised(name) == <<"raise", name>>

IsRaised(x) == x[1] = "raise"

\* bool(x) for the values a JSON document or a fetch result can be
Truthy(x) ==
    CASE x[1] = "none" -> FALSE
      [] x[1] = "int" -> x[2] # 0
      [] x[1] = "str" -> x[2] # <<>>
      [] x[1] = "list" -> x[2] # <<>>
      [] x[1] = "dict" -> DOMAIN x[2] # {}
      [] OTHER -> TRUE

\* d.get(key, default) of a dict
DictGet(d, key, default) == IF key \in DOMAIN d[2] THEN d[2][key] ELSE default

Min(a, b) == IF a < b THEN a ELSE b
Max(a, b) == IF a > b THEN a ELSE b

(***************************************************************************)
(* Text                                                                    *)
(***************************************************************************)
Digits == <<"0", "1", "2", "3", "4", "5", "6", "7", "8", "9">>
DigitChars == {Digits[i] : i \in 1..10}
DigitVal(c) == (CHOOSE i \in 1..10 : Digits[i] = c) - 1
Pad2(n) == <<Digits[((n \div 10) % 10) + 1], Digits[(n % 10) + 1]>>
Pad4(n) == Pad2((n \div 100) % 100) \o Pad2(n % 100)

\* str(n) of a non-negative int
RECURSIVE Str(_)
Str(n) == IF n < 10 THEN <<Digits[n + 1]>> ELSE Str(n \div 10) \o <<Digits[(n % 10) + 1]>>

\* s[:n]
Prefix(s, n) == SubSeq(s, 1, Min(n, Len(s)))

\* s.strip() (the whitespace of the model's texts is the space)
RECURSIVE LStrip(_)
LStrip(s) == IF s # <<>> /\ Head(s) = " " THEN LStrip(Tail(s)) ELSE s
RECURSIVE RStrip(_)
RStrip(s) == IF s # <<>> /\ s[Len(s)] = " " THEN RStrip(SubSeq(s, 1, Len(s) - 1)) ELSE s
Strip(s) == RStrip(LStrip(s))

\* s.split(): the maximal runs of non-space characters, in order
RECURSIVE SplitFrom(_, _, _)
SplitFrom(s, cur, acc) ==
    IF s = <<>> THEN (IF cur = <<>> THEN acc ELSE Append(acc, cur))
    ELSE IF Head(s) = " "
         THEN SplitFrom(Tail(s), <<>>, IF cur = <<>> THEN acc ELSE Append(acc, cur))
         ELSE SplitFrom(Tail(s), Append(cur, Head(s)), acc)
Split(s) == SplitFrom(s, <<>>, <<>>)

\* sep.join(parts)
RECURSIVE Join(_, _)
Join(sep, parts) ==
    IF parts = <<>> THEN <<>>
    ELSE IF Len(parts) = 1 THEN parts[1]
    ELSE parts[1] \o sep \o Join(sep, Tail(parts))

(***************************************************************************)
(* Calendar (datetime.date, datetime.timedelta)                            *)
(***************************************************************************)
IsLeap(y) == ((y % 4) = 0 /\ (y % 100) # 0) \/ (y % 400) = 0
DaysInMonth(y, m) ==
    IF m = 2 THEN (IF IsLeap(y) THEN 29 ELSE 28)
    ELSE IF m \in {4, 6, 9, 11} THEN 30 ELSE 31
\* dt.date(y, m, d) raises ValueError unless this holds (MINYEAR 1, MAXYEAR 9999)
ValidDate(y, m, d) ==
    /\ y \in 1..9999
    /\ m \in 1..12
    /\ d \in 1..DaysInMonth(y, m)

NextDay(dte) ==
    LET y == dte[1] m == dte[2] d == dte[3] IN
    IF d < DaysInMonth(y, m) THEN <<y, m, d + 1>>
    ELSE IF m < 12 THEN <<y, m + 1, 1>> ELSE <<y + 1, 1, 1>>
PrevDay(dte) ==
    LET y == dte[1] m == dte[2] d == dte[3] IN
    IF d > 1 THEN <<y, m, d - 1>>
    ELSE IF m > 1 THEN <<y, m - 1, DaysInMonth(y, m - 1)>> ELSE <<y - 1, 12, 31>>
\* date + timedelta(days=n), date - timedelta(days=n)
RECURSIVE PlusDays(_, _)
PlusDays(dte, n) == IF n = 0 THEN dte ELSE PlusDays(NextDay(dte), n - 1)
RECURSIVE MinusDays(_, _)
MinusDays(dte, n) == IF n = 0 THEN dte ELSE MinusDays(PrevDay(dte), n - 1)

\* date.isoformat(): YYYY-MM-DD
IsoFormat(dte) == Pad4(dte[1]) \o <<"-">> \o Pad2(dte[2]) \o <<"-">> \o Pad2(dte[3])

\* date.fromisoformat(s) of a ten-character s: the date, or None where it raises
FromIsoFormat(s) ==
    IF /\ Len(s) = 10
       /\ s[5] = "-" /\ s[8] = "-"
       /\ \A i \in {1, 2, 3, 4, 6, 7, 9, 10} : s[i] \in DigitChars
    THEN LET y == 1000 * DigitVal(s[1]) + 100 * DigitVal(s[2]) + 10 * DigitVal(s[3]) + DigitVal(s[4])
             m == 10 * DigitVal(s[6]) + DigitVal(s[7])
             d == 10 * DigitVal(s[9]) + DigitVal(s[10])
         IN IF ValidDate(y, m, d) THEN PyDate(<<y, m, d>>) ELSE None
    ELSE None

(***************************************************************************)
(* Window Builder                                                          *)
(***************************************************************************)
WINDOW_DAYS == 3

clamp_day(year, month, day) ==
    LET next_month == IF month = 12 THEN <<year + 1, 1, 1>> ELSE <<year, month + 1, 1>>
        last_day == PrevDay(next_month)[3]
    IN Max(1, Min(day, last_day))

\* a make_window that centers on the day as given
make_window_unclamped(year, month, day, window_days) ==
    LET center == <<year, month, day>>
        start == MinusDays(center, window_days)
        end == PlusDays(center, window_days)
    IN <<IsoFormat(start), IsoFormat(end)>>

\* (the center is computed once and then used as a value)
make_window(year, month, day, window_days) ==
    LET safe_day == clamp_day(year, month, day)
        start(center) == MinusDays(center, window_days)
        end(center) == PlusDays(center, window_days)
    IN CHOOSE win \in {<<IsoFormat(start(center)), IsoFormat(end(center))>> :
                          center \in {<<year, month, safe_day>>}} : TRUE

(***************************************************************************)
(* Query Encoder                                                           *)
(***************************************************************************)
BASE_COLLECTION_URL == "https://www.loc.gov/collections/chronicling-america/"
SCAN_COUNT == 100
COUNT_MAX == 100

\* a build_query_url that tests the state against "ALL" only
build_query_url_any_state(start_date, end_date, state, keyword, front_pages_only, dl, count) ==
    LET kw == Strip(keyword)
        base == << <<"fo", "json">>, <<"dl", dl>>,
                   <<"start_date", start_date>>, <<"end_date", end_date>>,
                   <<"c", Str(Max(1, Min(count, COUNT_MAX)))>> >>
        fpo == IF front_pages_only THEN << <<"front_pages_only", "true">> >> ELSE <<>>
        kws == IF kw # <<>>
               THEN << <<"qs", Join(<<"+">>, Split(kw))>>, <<"ops", "AND">>,
                       <<"searchType", "Advanced">> >>
               ELSE <<>>
        st == IF state # "ALL" THEN << <<"location_state", state>> >> ELSE <<>>
    IN [base |-> BASE_COLLECTION_URL, params |-> base \o fpo \o kws \o st]

\* The URL is kept as its base and its query parameters <<name, value>> in
\* the order urlencode writes them (the insertion order of params).
build_query_url(start_date, end_date, state, keyword, front_pages_only, dl, count) ==
    LET kw == Strip(keyword)
        base == << <<"fo", "json">>, <<"dl", dl>>,
                   <<"start_date", start_date>>, <<"end_date", end_date>>,
                   <<"c", Str(Max(1, Min(count, COUNT_MAX)))>> >>
        fpo == IF front_pages_only THEN << <<"front_pages_only", "true">> >> ELSE <<>>
        kws == IF kw # <<>>
               THEN << <<"qs", Join(<<"+">>, Split(kw))>>, <<"ops", "AND">>,
                       <<"searchType", "Advanced">> >>
               ELSE <<>>
        st == IF state # "" /\ state # "ALL" THEN << <<"location_state", state>> >> ELSE <<>>
    IN [base |-> BASE_COLLECTION_URL, params |-> base \o fpo \o kws \o st]

(***************************************************************************)
(* Resilient Fetcher                                                       *)
(*                                                                         *)
(* What urlopen meets is a record resp:                                    *)
(*   raises        "none", "HTTPError", or the type name of any other      *)
(*                 exception raised by urlopen or resp.read()              *)
(*   status        the HTTP status, reason its reason phrase               *)
(*   content_type  the Content-Type header, a sequence of characters       *)
(*   body          [id, len, doc]: the body's name, its length and the     *)
(*                 JSON document it holds (NotJson when json.loads raises) *)
(*   read_ok       whether the body of an HTTPError can be read            *)
(***************************************************************************)
SNIPPET_LEN == 800
NotJson == <<"invalid", 0>>

UpperCase == <<"A", "B", "C", "D", "E", "F", "G", "H", "I", "J", "K", "L", "M",
               "N", "O", "P", "Q", "R", "S", "T", "U", "V", "W", "X", "Y", "Z">>
LowerCase == <<"a", "b", "c", "d", "e", "f", "g", "h", "i", "j", "k", "l", "m",
               "n", "o", "p", "q", "r", "s", "t", "u", "v", "w", "x", "y", "z">>
LowerChar(c) ==
    IF \E i \in 1..26 : UpperCase[i] = c
    THEN LowerCase[CHOOSE i \in 1..26 : UpperCase[i] = c]
    ELSE c
\* s.lower()
Lower(s) == [i \in 1..Len(s) |-> LowerChar(s[i])]
\* sub in s
Contains(sub, s) ==
    \E i \in 1..(Len(s) - Len(sub) + 1) : SubSeq(s, i, i + Len(sub) - 1) = sub

\* text[:n] of a body: the prefix keeps the body's name and at most n characters
TextPrefix(body, n) == <<"text", [id |-> body.id, len |-> Min(body.len, n)]>>

\* the message put in debug["error"]: its fixed part and what it embeds
ErrorText(kind, code, reason, ct) ==
    <<"error", [kind |-> kind, code |-> code, reason |-> reason, ct |-> ct]>>

\* the debug dict as first built (lines 65-72)
NewDebug(url) ==
    [ok |-> FALSE, status |-> None, content_type |-> None, error |-> None,
     snippet |-> None, url |-> url]

\* a fetcher that tries json.loads first and looks at the content type only
\* when the body does not parse
fetch_body_parse_first(url, resp) ==
    LET debug == [NewDebug(url) EXCEPT !.status = PyInt(resp.status),
                                       !.content_type = PyStr(resp.content_type)]
        text == resp.body
    IN IF text.doc # NotJson
       THEN [payload |-> text.doc, debug |-> [debug EXCEPT !.ok = TRUE]]
       ELSE IF ~Contains(<<"j", "s", "o", "n">>, Lower(resp.content_type))
       THEN [payload |-> None,
             debug |-> [debug EXCEPT
                          !.error = ErrorText("Non-JSON response", 0, "", resp.content_type),
                          !.snippet = TextPrefix(text, SNIPPET_LEN)]]
       ELSE [payload |-> None,
             debug |-> [debug EXCEPT
                          !.error = ErrorText("JSON parse failed", 0, "", <<>>),
                          !.snippet = TextPrefix(text, SNIPPET_LEN)]]

\* the branch that puts "json" not in content_type.lower() before json.loads
fetch_body(url, resp) ==
    LET debug == [NewDebug(url) EXCEPT !.status = PyInt(resp.status),
                                       !.content_type = PyStr(resp.content_type)]
        text == resp.body
    IN IF ~Contains(<<"j", "s", "o", "n">>, Lower(resp.content_type))
       THEN [payload |-> None,
             debug |-> [debug EXCEPT
                          !.error = ErrorText("Non-JSON response", 0, "", resp.content_type),
                          !.snippet = TextPrefix(text, SNIPPET_LEN)]]
       ELSE IF text.doc = NotJson
       THEN [payload |-> None,
             debug |-> [debug EXCEPT
                          !.error = ErrorText("JSON parse failed", 0, "", <<>>),
                          !.snippet = TextPrefix(text, SNIPPET_LEN)]]
       ELSE [payload |-> text.doc, debug |-> [debug EXCEPT !.ok = TRUE]]

\* one uncached call of fetch_json_debug(url) that meets resp
fetch_json_debug(url, resp) ==
    IF resp.raises = "HTTPError"
    THEN [payload |-> None,
          debug |-> [NewDebug(url) EXCEPT
                       !.status = PyInt(resp.status),
                       !.error = ErrorText("HTTPError", resp.status, resp.reason, <<>>),
                       !.snippet = IF resp.read_ok
                                   THEN TextPrefix(resp.body, SNIPPET_LEN)
                                   ELSE None]]
    ELSE IF resp.raises # "none"
    THEN [payload |-> None,
          debug |-> [NewDebug(url) EXCEPT
                       !.error = ErrorText(resp.raises, 0, resp.reason, <<>>)]]
    ELSE fetch_body(url, resp)

(***************************************************************************)
(* Result Interpreter                                                      *)
(***************************************************************************)
\* parse_results(payload): payload.get raises AttributeError unless payload
\* is a dict
parse_results(payload) ==
    IF payload[1] # "dict" THEN Raised("AttributeError")
    ELSE LET results == DictGet(payload, "results", PyList(<<>>))
         IN IF results[1] = "list" THEN results ELSE PyList(<<>>)

parse_iso10(str) ==
    LET s == Strip(str)
    IN IF Len(s) >= 10 THEN FromIsoFormat(Prefix(s, 10)) ELSE None

\* re.search(r"/(\d{4}-\d{2}-\d{2})/", u): group 1 of the leftmost match,
\* or None
IsDateSegment(u, i) ==
    /\ i + 11 <= Len(u)
    /\ u[i] = "/" /\ u[i + 11] = "/"
    /\ u[i + 5] = "-" /\ u[i + 8] = "-"
    /\ \A k \in {1, 2, 3, 4, 6, 7, 9, 10} : u[i + k] \in DigitChars
SearchDateSegment(u) ==
    IF \E i \in 1..Len(u) : IsDateSegment(u, i)
    THEN LET i == CHOOSE i \in 1..Len(u) :
                    IsDateSegment(u, i) /\ \A j \in 1..(i - 1) : ~IsDateSegment(u, j)
         IN PyStr(SubSeq(u, i + 1, i + 10))
    ELSE None
\* the date a URL string embeds, None when there is no match or
\* fromisoformat raises on the match
UrlDate(u) ==
    LET m == SearchDateSegment(u)
    IN IF m = None THEN None ELSE FromIsoFormat(m[2])

\* for x in v: the first str element that parse_iso10 turns into a date
RECURSIVE FirstIsoDate(_)
FirstIsoDate(xs) ==
    IF xs = <<>> THEN None
    ELSE LET d == IF Head(xs)[1] = "str" THEN parse_iso10(Head(xs)[2]) ELSE None
         IN IF d # None THEN d ELSE FirstIsoDate(Tail(xs))

\* for u in aka: the first str element whose leftmost /YYYY-MM-DD/ is a date
RECURSIVE FirstUrlDate(_)
FirstUrlDate(xs) ==
    IF xs = <<>> THEN None
    ELSE LET d == IF Head(xs)[1] = "str" THEN UrlDate(Head(xs)[2]) ELSE None
         IN IF d # None THEN d ELSE FirstUrlDate(Tail(xs))

\* the loop over ("date", "created_published_date", "created_published")
RECURSIVE FieldDate(_, _)
FieldDate(item, keys) ==
    IF keys = <<>> THEN None
    ELSE LET v == DictGet(item, Head(keys), None)
             d == IF v[1] = "str" THEN parse_iso10(v[2])
                  ELSE IF v[1] = "list" THEN FirstIsoDate(v[2])
                  ELSE None
         IN IF d # None THEN d ELSE FieldDate(item, Tail(keys))

\* a parse_item_date that looks at the item URL before the aka URLs
parse_item_date_url_first(item) ==
    IF item[1] # "dict" THEN Raised("AttributeError")
    ELSE LET d1 == FieldDate(item, <<"date", "created_published_date", "created_published">>)
             aka == DictGet(item, "aka", None)
             d2 == IF aka[1] = "list" THEN FirstUrlDate(aka[2])
                   ELSE IF aka[1] = "str" THEN UrlDate(aka[2])
                   ELSE None
             url == DictGet(item, "url", None)
             d3 == IF url[1] = "str" THEN UrlDate(url[2]) ELSE None
         IN IF d1 # None THEN d1 ELSE IF d3 # None THEN d3 ELSE d2

parse_item_date(item) ==
    IF item[1] # "dict" THEN Raised("AttributeError")
    ELSE LET d1 == FieldDate(item, <<"date", "created_published_date", "created_published">>)
             aka == DictGet(item, "aka", None)
             d2 == IF aka[1] = "list" THEN FirstUrlDate(aka[2])
                   ELSE IF aka[1] = "str" THEN UrlDate(aka[2])
                   ELSE None
             url == DictGet(item, "url", None)
             d3 == IF url[1] = "str" THEN UrlDate(url[2]) ELSE None
         IN IF d1 # None THEN d1 ELSE IF d2 # None THEN d2 ELSE d3

\* filter_exact_month_day(results, month, day): the list kept, or the
\* exception parse_item_date raises on the first item that is no dict
RECURSIVE filter_from(_, _, _, _)
filter_from(results, month, day, exact) ==
    IF results = <<>> THEN PyList(exact)
    ELSE LET item == Head(results)
             d == parse_item_date(item)
         IN IF IsRaised(d) THEN d
            ELSE filter_from(Tail(results), month, day,
                             IF d # None /\ d[2][2] = month /\ d[2][3] = day
                             THEN Append(exact, item) ELSE exact)
filter_exact_month_day(results, month, day) == filter_from(results, month, day, <<>>)

(***************************************************************************)
(* Bounds of the model                                                     *)
(***************************************************************************)
\* how many years of the archive hold an exact match
MaxMatchYears == 2
\* how many requests of one run the archive answers out of character
MaxOdd == 1
\* seconds a slow request takes, in hundredths
SlowLatency == 25000
\* seconds a fast request takes, in hundredths
FastLatency == 20

(***************************************************************************)
(* The archive                                                             *)
(***************************************************************************)
\* the years that may hold an exact match: decade anchors, years inside a
\* decade, years of the ceiling decade, and the last anchor of the scan
CandidateYears == {1963, 1960, 1955, 1950, 1943, 1690}

\* the records of a matching year's answer, in the archive's order
HitShapes == << <<"exact">>, <<"near", "exact_url", "exact">>, <<"exact_other_year">> >>
\* how far from the year asked for a record of another year is dated
OTHER_YEAR_DISTANCE == 10

\* the contents under which answers out of character are explored
OddRunContents == {{}, {1960}, {1950}, {1955, 1950}, {1960, 1950}}

\* the target dates of a scan
Targets == << <<7, 4>> >>

UrlPath(dte) == <<"/", "l", "/">> \o IsoFormat(dte) \o <<"/", "e", "/">>

\* one record of an answer for (year, month, day): dated the target day in
\* its date field or only in its url, dated the target day of another year,
\* or dated the day after
MkItem(kind, year, month, day, i) ==
    LET center == <<year, month, clamp_day(year, month, day)>>
    IN CASE kind = "exact" ->
              PyDict([date |-> PyStr(IsoFormat(center)), title |-> PyInt(i)])
         [] kind = "exact_url" ->
              PyDict([url |-> PyStr(UrlPath(center)), title |-> PyInt(i)])
         [] kind = "exact_other_year" ->
              PyDict([date |-> PyStr(IsoFormat(<<year - OTHER_YEAR_DISTANCE, month,
                                                 clamp_day(year - OTHER_YEAR_DISTANCE, month, day)>>)),
                      title |-> PyInt(i)])
         [] OTHER ->
              PyDict([date |-> PyStr(IsoFormat(NextDay(center))), title |-> PyInt(i)])

\* Content-Type header values
APPLICATION_JSON ==
    <<"a", "p", "p", "l", "i", "c", "a", "t", "i", "o", "n", "/", "j", "s", "o", "n">>
TEXT_HTML == <<"t", "e", "x", "t", "/", "h", "t", "m", "l">>

JsonBody(id, doc) == [id |-> id, len |-> 120, doc |-> doc]
OkResponse(body) ==
    [raises |-> "none", status |-> 200, reason |-> "OK",
     content_type |-> APPLICATION_JSON, body |-> body, read_ok |-> TRUE]
HtmlPage == [id |-> "block page", len |-> 2000, doc |-> NotJson]

\* what the archive holds for a year's window
Content(year, month, day, years, shape) ==
    LET kinds == IF year \in years THEN shape ELSE <<"near">>
    IN OkResponse(JsonBody("results",
         PyDict([results |->
                   PyList([i \in 1..Len(kinds) |-> MkItem(kinds[i], year, month, day, i)])])))

\* the answers out of character: the failures of the fetch, and JSON
\* documents that are not an object holding a list of record objects
OddResponses ==
    << [raises |-> "URLError", status |-> 0, reason |-> "timed out",
        content_type |-> <<>>, body |-> HtmlPage, read_ok |-> FALSE],
       [raises |-> "HTTPError", status |-> 429, reason |-> "Too Many Requests",
        content_type |-> TEXT_HTML, body |-> HtmlPage, read_ok |-> TRUE],
       [raises |-> "HTTPError", status |-> 429, reason |-> "Too Many Requests",
        content_type |-> TEXT_HTML, body |-> HtmlPage, read_ok |-> FALSE],
       [raises |-> "none", status |-> 200, reason |-> "OK",
        content_type |-> TEXT_HTML, body |-> HtmlPage, read_ok |-> TRUE],
       OkResponse([id |-> "cut short", len |-> 40, doc |-> NotJson]),
       OkResponse(JsonBody("null", None)),
       OkResponse(JsonBody("{}", PyDict(<<>>))),
       OkResponse(JsonBody("no results", PyDict([message |-> PyInt(1)]))),
       OkResponse(JsonBody("results not a list", PyDict([results |-> PyInt(7)]))),
       OkResponse(JsonBody("array", PyList(<<PyInt(1)>>))),
       OkResponse(JsonBody("record not an object",
                           PyDict([results |-> PyList(<<PyStr(<<"x">>)>>)]))) >>

(***************************************************************************)
(* State                                                                   *)
(***************************************************************************)
VARIABLES
    month, day, state, keyword, front_pages_only,  \* the scan's arguments
    matchYears, hitShape,      \* the archive's content
    oddIx, oddLeft, blocked,   \* its answers out of character
    latency,                   \* the time one request takes
    now,                       \* the clock, in hundredths of a second
    cache,                     \* st.cache_data's entries of fetch_json_debug
    pc, idx, hit_decade_start, last_debug, ret,  \* decade_step_most_recent
    trace,                     \* history: the queries and pauses of the scan
    lastDiag,                  \* history: the diagnostic of the last fetch
    calls,                     \* history: the fetches of the test button
    fx_in, fx_out              \* the input and result of a function applied alone

vars == <<month, day, state, keyword, front_pages_only, matchYears, hitShape,
          oddIx, oddLeft, blocked, latency, now, cache, pc, idx,
          hit_decade_start, last_debug, ret, trace, lastDiag, calls,
          fx_in, fx_out>>

argVars == <<month, day, state, keyword, front_pages_only>>
archiveVars == <<matchYears, hitShape, oddIx, blocked, latency>>
scanVars == <<pc, idx, hit_decade_start, last_debug, ret, trace, lastDiag>>
fxVars == <<fx_in, fx_out>>

(***************************************************************************)
(* The response cache: @st.cache_data(ttl=60 * 30) on fetch_json_debug.    *)
(* An entry is keyed by the url argument, holds the returned tuple and     *)
(* expires ttl after it was stored; a hit returns the stored tuple         *)
(* without running the function.                                           *)
(***************************************************************************)
\* 60 * 30 seconds, in hundredths of a second
TTL == 60 * 30 * 100
\* time.sleep(0.15), in hundredths of a second
SLEEP == 15

CacheHit(c, url, t) == url \in DOMAIN c /\ t < c[url].expires
\* a cache that keeps successes only
CacheStoreSuccessOnly(c, url, value, t) ==
    [u \in {k \in DOMAIN c : t < c[k].expires} \cup (IF value.debug.ok THEN {url} ELSE {}) |->
        IF u = url THEN [value |-> value, expires |-> t + TTL] ELSE c[u]]
\* storing an entry drops the expired ones
CacheStore(c, url, value, t) ==
    [u \in {k \in DOMAIN c : t < c[k].expires} \cup {url} |->
        IF u = url THEN [value |-> value, expires |-> t + TTL] ELSE c[u]]

\* the tuple a call of the cached fetch_json_debug(url) returns at time t
\* when the network, if asked, answers resp
CachedResult(c, url, t, resp) ==
    IF CacheHit(c, url, t) THEN c[url].value ELSE fetch_json_debug(url, resp)

(***************************************************************************)
(* Decade Scanner: decade_step_most_recent                                 *)
(***************************************************************************)
SCAN_START == 1960
SCAN_STOP == 1689
SCAN_STEP == 10
CEILING_YEAR == 1963
DECADE_LAST == 9

\* list(range(start, stop, -step)) for step > 0
RangeDown(start, stop, step) ==
    LET n == IF start > stop THEN (start - stop + step - 1) \div step ELSE 0
    IN [i \in 1..n |-> start - (i - 1) * step]

\* a Phase 1 that visits every other decade
years_every_other_decade == RangeDown(SCAN_START, SCAN_STOP, 2 * SCAN_STEP)

\* line 285
years == RangeDown(SCAN_START, SCAN_STOP, SCAN_STEP)

\* a Phase 2 range that stops one year short, above the anchor
phase2_years_above_anchor(hit) == RangeDown(Min(hit + DECADE_LAST, CEILING_YEAR), hit, 1)
\* a Phase 2 range that starts one year late, at the anchor of the decade above
phase2_years_from_next_anchor(hit) ==
    RangeDown(Min(hit + DECADE_LAST + 1, CEILING_YEAR), hit - 1, 1)

\* a Phase 2 range of two decades
phase2_years_two_decades(hit) ==
    RangeDown(Min(hit + 2 * DECADE_LAST + 1, CEILING_YEAR), hit - 1, 1)

\* line 317: range(min(hit_decade_start + 9, 1963), hit_decade_start - 1, -1)
phase2_years(hit) == RangeDown(Min(hit + DECADE_LAST, CEILING_YEAR), hit - 1, 1)

\* query_year(y) up to the fetch: the window and the request URL
query_window(y) == make_window(y, month, day, WINDOW_DAYS)
query_url(y) ==
    LET win == query_window(y)
    IN build_query_url(win[1], win[2], state, keyword, front_pages_only, "page", SCAN_COUNT)

\* lines 306-308 and 320-322: the exact matches of a payload, the empty
\* list when the payload is falsy, or the exception raised on the way
exact_matches(payload, m, d) ==
    IF ~Truthy(payload) THEN PyList(<<>>)
    ELSE LET results == parse_results(payload)
         IN IF IsRaised(results) THEN results
            ELSE filter_exact_month_day(results[2], m, d)

\* a success tuple that carries the last of the exact matches
success_tuple_last_exact(y, exact, url, dbg, win) ==
    <<"tuple", [year |-> PyInt(y), item |-> exact[2][Len(exact[2])], url |-> <<"url", url>>,
            dbg |-> dbg, count |-> PyInt(Len(exact[2])), win |-> win]>>
\* line 324
success_tuple(y, exact, url, dbg, win) ==
    <<"tuple", [year |-> PyInt(y), item |-> exact[2][1], url |-> <<"url", url>>,
            dbg |-> dbg, count |-> PyInt(Len(exact[2])), win |-> win]>>
\* a failure tuple that carries the diagnostic as first initialised (line 286)
failure_tuple_first_debug(dbg) ==
    <<"tuple", [year |-> None, item |-> None, url |-> PyStr(<<>>),
            dbg |-> PyDict(<<>>), count |-> PyInt(0), win |-> << <<>>, <<>> >>]>>
\* lines 315 and 327
failure_tuple(dbg) ==
    <<"tuple", [year |-> None, item |-> None, url |-> PyStr(<<>>),
            dbg |-> dbg, count |-> PyInt(0), win |-> << <<>>, <<>> >>]>>

\* the years of the loop the scan is in
loop_years == IF pc \in {"phase1", "sleep1"} THEN years ELSE phase2_years(hit_decade_start[2])

\* what the archive answers to a request for year y
Answer(y, useOdd) ==
    IF useOdd THEN OddResponses[oddIx]
    ELSE Content(y, month, day, matchYears, HitShapes[hitShape])

QueryEvent(y, phase, net, odd, out) ==
    [op |-> "query", year |-> y, phase |-> phase, net |-> net, odd |-> odd, out |-> out]
SleepEvent(phase) ==
    [op |-> "sleep", year |-> 0, phase |-> phase, net |-> FALSE, odd |-> FALSE, out |-> "-"]

\* the button "Find most recent available (exact match)" (lines 474-478)
ClickScan ==
    /\ pc = "idle"
    /\ pc' = "phase1"
    /\ idx' = 1
    /\ hit_decade_start' = None
    /\ last_debug' = PyDict(<<>>)
    /\ UNCHANGED <<argVars, archiveVars, oddLeft, now, cache, ret, trace, lastDiag, calls, fxVars>>

\* one iteration of either loop up to its sleep: lines 304-311 and 318-324
Query ==
    /\ pc \in {"phase1", "phase2"}
    /\ \E useOdd \in BOOLEAN :
       \E y \in {loop_years[idx]} :
       \E win \in {query_window(y)} :
       \E url \in {query_url(y)} :
       \E hit \in {CacheHit(cache, url, now)} :
       \E res \in {CachedResult(cache, url, now, Answer(y, useOdd))} :
       \E exact \in {exact_matches(res.payload, month, day)} :
         LET phase == IF pc = "phase1" THEN 1 ELSE 2
             dbg == <<"debug", res.debug>>
             out == IF IsRaised(exact) THEN "raise"
                    ELSE IF Truthy(exact) THEN "hit"
                    ELSE IF ~res.debug.ok THEN "fail" ELSE "miss"
         IN /\ hit => ~useOdd
            /\ (~hit /\ blocked) => useOdd
            /\ (useOdd /\ ~blocked) => oddLeft > 0
            /\ oddLeft' = IF useOdd /\ ~blocked THEN oddLeft - 1 ELSE oddLeft
            /\ cache' = IF hit THEN cache ELSE CacheStore(cache, url, res, now + latency)
            /\ now' = IF hit THEN now ELSE now + latency
            /\ last_debug' = dbg
            /\ lastDiag' = dbg
            /\ trace' = Append(trace, QueryEvent(y, phase, ~hit, useOdd, out))
            /\ IF out = "raise"
               THEN /\ pc' = "raised"
                    /\ ret' = exact
                    /\ UNCHANGED <<idx, hit_decade_start>>
               ELSE IF out = "hit" /\ phase = 1
               THEN /\ pc' = "phase2"
                    /\ hit_decade_start' = PyInt(y)
                    /\ idx' = 1
                    /\ UNCHANGED ret
               ELSE IF out = "hit"
               THEN /\ pc' = "returned"
                    /\ ret' = success_tuple(y, exact, url, dbg, win)
                    /\ UNCHANGED <<idx, hit_decade_start>>
               ELSE /\ pc' = IF phase = 1 THEN "sleep1" ELSE "sleep2"
                    /\ UNCHANGED <<idx, hit_decade_start, ret>>
    /\ UNCHANGED <<argVars, archiveVars, calls, fxVars>>

\* time.sleep(0.15) and the loop's next step (lines 312-315 and 325-327)
Sleep ==
    /\ pc \in {"sleep1", "sleep2"}
    /\ now' = now + SLEEP
    /\ trace' = Append(trace, SleepEvent(IF pc = "sleep1" THEN 1 ELSE 2))
    /\ IF idx < Len(loop_years)
       THEN /\ idx' = idx + 1
            /\ pc' = IF pc = "sleep1" THEN "phase1" ELSE "phase2"
            /\ UNCHANGED ret
       ELSE /\ pc' = "returned"
            /\ ret' = failure_tuple(last_debug)
            /\ UNCHANGED idx
    /\ UNCHANGED <<argVars, archiveVars, oddLeft, cache, hit_decade_start, last_debug,
                   lastDiag, calls, fxVars>>

\* what every run starts from: a cold cache and no scan under way
InitProgram ==
    /\ \E tg \in 1..Len(Targets) : month = Targets[tg][1] /\ day = Targets[tg][2]
    /\ state = "ALL"
    /\ keyword = <<>>
    /\ front_pages_only = TRUE
    /\ now = 0
    /\ cache = <<>>
    /\ pc = "idle"
    /\ idx = 0
    /\ hit_decade_start = None
    /\ last_debug = PyDict(<<>>)
    /\ ret = None
    /\ trace = <<>>
    /\ lastDiag = None
    /\ calls = <<>>

\* an archive that answers every request from its content
InitContent ==
    /\ matchYears \in {S \in SUBSET CandidateYears : Cardinality(S) <= MaxMatchYears}
    /\ hitShape \in 1..Len(HitShapes)
    /\ matchYears = {} => hitShape = 1
    /\ oddIx = 1
    /\ oddLeft = 0
    /\ blocked = FALSE

\* an archive that answers up to MaxOdd requests out of character
InitOdd ==
    /\ matchYears \in OddRunContents
    /\ hitShape \in 1..Len(HitShapes)
    /\ matchYears = {} => hitShape = 1
    /\ oddIx \in 1..Len(OddResponses)
    /\ oddLeft = MaxOdd
    /\ blocked = FALSE

\* an archive that answers every request out of character, the same way
InitBlocked ==
    /\ matchYears = {}
    /\ hitShape = 1
    /\ oddIx \in 1..Len(OddResponses)
    /\ oddLeft = 0
    /\ blocked = TRUE

Init ==
    /\ InitProgram
    /\ fx_in = <<>>
    /\ fx_out = <<>>
    /\ latency \in {FastLatency, SlowLatency}
    /\ InitContent \/ InitOdd \/ InitBlocked

Next == ClickScan \/ Query \/ Sleep

Spec == Init /\ [][Next]_vars

\* When Query can be taken, and where it leaves the scan. Every other part
\* of Query is an assignment of a value computed from the state, so Query is
\* enabled exactly when QueryStep is, and a step of Spec is a QueryStep
\* step that changes pc exactly when it is a Query step.
QueryStep ==
    /\ pc \in {"phase1", "phase2"}
    /\ \E useOdd \in BOOLEAN :
       \E hit \in {CacheHit(cache, query_url(loop_years[idx]), now)} :
          /\ hit => ~useOdd
          /\ (~hit /\ blocked) => useOdd
          /\ (useOdd /\ ~blocked) => oddLeft > 0
    /\ pc' \in {"sleep1", "sleep2", "phase2", "returned", "raised"}

\* A scan under way goes on: the function is synchronous code, each request
\* ends with an answer or with the timeout of line 86, each sleep ends.
SpecLive == Spec /\ WF_pc(QueryStep) /\ WF_vars(Sleep)

(***************************************************************************)
(* fetch_json_debug alone, applied once to each response it can meet       *)
(***************************************************************************)
APPLICATION_JSON_CAPS ==
    <<"A", "p", "p", "l", "i", "c", "a", "t", "i", "o", "n", "/", "J", "S", "O", "N">>
\* the header's values: JSON, JSON in capitals, HTML, and no header ("")
ContentTypes == {APPLICATION_JSON, APPLICATION_JSON_CAPS, TEXT_HTML, <<>>}
\* bodies: an HTML page, JSON cut short, and the JSON documents an object,
\* null and an array
Bodies ==
    {HtmlPage,
     [id |-> "cut short", len |-> 40, doc |-> NotJson],
     JsonBody("object", PyDict([results |-> PyList(<<>>)])),
     JsonBody("null", None),
     JsonBody("array", PyList(<<PyInt(1)>>))}
\* the exceptions other than HTTPError: raised by urlopen before there is
\* a response (status 0 here), or by resp.read() after a 200 status line
TransportErrors == {"URLError", "TimeoutError", "IncompleteRead"}

FetchInputs ==
    {[raises |-> "none", status |-> s, reason |-> "OK", content_type |-> ct,
      body |-> b, read_ok |-> TRUE] :
        s \in {200, 206}, ct \in ContentTypes, b \in Bodies}
    \cup
    {[raises |-> "HTTPError", status |-> s, reason |-> "Error", content_type |-> ct,
      body |-> b, read_ok |-> r] :
        s \in {403, 429, 503}, ct \in {APPLICATION_JSON, TEXT_HTML},
        b \in {HtmlPage, JsonBody("object", PyDict([results |-> PyList(<<>>)]))},
        r \in BOOLEAN}
    \cup
    {[raises |-> e, status |-> s, reason |-> "failed", content_type |-> APPLICATION_JSON,
      body |-> JsonBody("object", PyDict([results |-> PyList(<<>>)])), read_ok |-> FALSE] :
        e \in TransportErrors, s \in {0, 200}}

FetchYears == {1963, 1960}

InitFetch ==
    /\ InitProgram
    /\ matchYears = {} /\ hitShape = 1 /\ oddIx = 1 /\ oddLeft = 0
    /\ blocked = FALSE /\ latency = FastLatency
    /\ fx_in \in {[url |-> query_url(y), resp |-> r] : y \in FetchYears, r \in FetchInputs}
    /\ fx_out = <<>>

\* lines 64-119, once, without the cache
ApplyFetch ==
    /\ fx_out = <<>>
    /\ fx_out' = <<fetch_json_debug(fx_in.url, fx_in.resp)>>
    /\ UNCHANGED <<argVars, archiveVars, oddLeft, now, cache, scanVars, calls, fx_in>>

NextFetch == ApplyFetch

SpecFetch == InitFetch /\ [][NextFetch]_vars

(***************************************************************************)
(* The cached fetcher under the button "Test exact month/day in chosen     *)
(* year", clicked again and again as time passes                           *)
(***************************************************************************)
MaxCalls == 3
MaxTicks == 4
\* ten minutes, in hundredths of a second
TickStep == 60000
TestYears == {1955, 1950}

\* what the handler shows: lines 458-471
Shown(payload, exact) ==
    IF ~Truthy(payload) THEN "debug"
    ELSE IF IsRaised(exact) THEN "exception"
    ELSE IF ~Truthy(exact) THEN "no match"
    ELSE "match"

\* the handler of the button: lines 442-471
ClickTest ==
    /\ pc = "idle"
    /\ Len(calls) < MaxCalls
    /\ \E y \in TestYears :
       \E useOdd \in BOOLEAN :
       \E url \in {query_url(y)} :
       \E hit \in {CacheHit(cache, url, now)} :
       \E res \in {CachedResult(cache, url, now, Answer(y, useOdd))} :
       \E exact \in {exact_matches(res.payload, month, day)} :
         /\ hit => ~useOdd
         /\ useOdd => oddLeft > 0
         /\ oddLeft' = IF useOdd THEN oddLeft - 1 ELSE oddLeft
         /\ cache' = IF hit THEN cache ELSE CacheStore(cache, url, res, now + latency)
         /\ now' = IF hit THEN now ELSE now + latency
         /\ calls' = Append(calls,
                [year |-> y, url |-> url, at |-> now,
                 done |-> IF hit THEN now ELSE now + latency,
                 net |-> ~hit, res |-> res, shown |-> Shown(res.payload, exact)])
    /\ UNCHANGED <<argVars, archiveVars, scanVars, fxVars>>

\* time passes between two clicks
Tick ==
    /\ pc = "idle"
    /\ now < MaxTicks * TickStep
    /\ now' = now + TickStep
    /\ UNCHANGED <<argVars, archiveVars, oddLeft, cache, scanVars, calls, fxVars>>

InitCache ==
    /\ InitProgram
    /\ matchYears \in {{}, {1955}}
    /\ hitShape = 1
    /\ oddIx \in {1, 2, 5, 10}
    /\ oddLeft = MaxOdd
    /\ blocked = FALSE
    /\ latency \in {FastLatency, SlowLatency}
    /\ fx_in = <<>>
    /\ fx_out = <<>>

NextCache == ClickTest \/ Tick

SpecCache == InitCache /\ [][NextCache]_vars

(***************************************************************************)
(* The records of a result list: what item.get(...) can find under the    *)
(* keys date, created_published_date, created_published, aka and url       *)
(***************************************************************************)
\* a key the record does not have
Absent == <<"absent", 0>>
\* the date each source of a record carries when it carries one
DATE_OF_DATE == <<1955, 7, 4>>
DATE_OF_PUBLISHED == <<1954, 7, 4>>
DATE_OF_PUBLISHED_2 == <<1954, 7, 5>>
DATE_OF_AKA == <<1953, 7, 4>>
DATE_OF_URL == <<1952, 7, 5>>

NoDateText == <<"n", ".", "d", ".">>
\* ten characters shaped like a date that name no calendar day
Feb30Text == <<"1", "9", "5", "5", "-", "0", "2", "-", "3", "0">>
\* URLs: without a date, and with a date-shaped segment that is no date
PlainUrl == <<"/", "l", "/", "s", "n", "8", "/">>
BadSegmentUrl == <<"/", "l", "/">> \o Feb30Text \o <<"/", "e", "/">>
\* a URL whose leftmost date-shaped segment is no date and whose next is one
BadThenDatedUrl(dte) == <<"/", "l", "/">> \o Feb30Text \o UrlPath(dte)

\* a source of a record: the value under its key(s) and the date that
\* source stands for (None when it stands for none: a URL stands for the
\* date of its leftmost /YYYY-MM-DD/ segment, the one re.search finds)
Src(val, date) == [val |-> val, date |-> date]

\* the primary date field
DateOptions ==
    << Src(Absent, None),
       Src(PyStr(IsoFormat(DATE_OF_DATE)), PyDate(DATE_OF_DATE)),
       Src(PyStr(IsoFormat(DATE_OF_DATE) \o <<"T", "0", "0", ":", "0", "0">>),
           PyDate(DATE_OF_DATE)),
       Src(PyStr(<<" ">> \o IsoFormat(DATE_OF_DATE) \o <<" ">>), PyDate(DATE_OF_DATE)),
       Src(PyStr(Feb30Text), None),
       Src(PyStr(NoDateText), None),
       Src(PyList(<<PyStr(NoDateText), PyInt(7), PyStr(IsoFormat(DATE_OF_DATE))>>),
           PyDate(DATE_OF_DATE)),
       Src(PyInt(1955), None) >>

\* the published date fields: <<created_published_date, created_published>>
PublishedOptions ==
    << Src(<<Absent, Absent>>, None),
       Src(<<PyStr(IsoFormat(DATE_OF_PUBLISHED)), Absent>>, PyDate(DATE_OF_PUBLISHED)),
       Src(<<Absent, PyStr(IsoFormat(DATE_OF_PUBLISHED_2))>>, PyDate(DATE_OF_PUBLISHED_2)),
       Src(<<PyStr(NoDateText), PyStr(IsoFormat(DATE_OF_PUBLISHED_2))>>,
           PyDate(DATE_OF_PUBLISHED_2)),
       Src(<<PyStr(IsoFormat(DATE_OF_PUBLISHED)), PyStr(IsoFormat(DATE_OF_PUBLISHED_2))>>,
           PyDate(DATE_OF_PUBLISHED)) >>

\* the alternate URLs: a list or a single string
AkaOptions ==
    << Src(Absent, None),
       Src(PyList(<<PyStr(UrlPath(DATE_OF_AKA))>>), PyDate(DATE_OF_AKA)),
       Src(PyStr(UrlPath(DATE_OF_AKA)), PyDate(DATE_OF_AKA)),
       Src(PyList(<<PyStr(PlainUrl), PyInt(7), PyStr(BadSegmentUrl),
                    PyStr(UrlPath(DATE_OF_AKA))>>), PyDate(DATE_OF_AKA)),
       Src(PyList(<<PyStr(PlainUrl)>>), None),
       Src(PyStr(BadSegmentUrl), None),
       Src(PyStr(BadThenDatedUrl(DATE_OF_AKA)), None) >>

\* the canonical item URL
UrlOptions ==
    << Src(Absent, None),
       Src(PyStr(UrlPath(DATE_OF_URL)), PyDate(DATE_OF_URL)),
       Src(PyStr(BadSegmentUrl), None),
       Src(PyStr(BadThenDatedUrl(DATE_OF_URL)), None),
       Src(PyInt(7), None) >>

\* the record that has the given values under its keys
MkRecord(d, p, a, u) ==
    LET val == [date |-> d.val, created_published_date |-> p.val[1],
                created_published |-> p.val[2], aka |-> a.val, url |-> u.val,
                title |-> PyInt(1)]
    IN PyDict([k \in {k \in DOMAIN val : val[k] # Absent} |-> val[k]])

\* elements of a result list that are not JSON objects
NonObjects == {None, PyStr(<<"x">>), PyInt(7)}

(***************************************************************************)
(* parse_item_date alone, applied once to each record                      *)
(***************************************************************************)
\* a record together with the dates its four sources stand for, in the
\* order date field, published fields, aka URLs, url
DateInputs ==
    {[item |-> MkRecord(DateOptions[d], PublishedOptions[p], AkaOptions[a], UrlOptions[u]),
      want |-> <<DateOptions[d].date, PublishedOptions[p].date,
                 AkaOptions[a].date, UrlOptions[u].date>>] :
        d \in 1..Len(DateOptions), p \in 1..Len(PublishedOptions),
        a \in 1..Len(AkaOptions), u \in 1..Len(UrlOptions)}
    \cup {[item |-> x, want |-> <<None, None, None, None>>] : x \in NonObjects}

InitDate ==
    /\ InitProgram
    /\ matchYears = {} /\ hitShape = 1 /\ oddIx = 1 /\ oddLeft = 0
    /\ blocked = FALSE /\ latency = FastLatency
    /\ fx_in \in DateInputs
    /\ fx_out = <<>>

\* lines 127-184, once
ApplyParseDate ==
    /\ fx_out = <<>>
    /\ fx_out' = <<parse_item_date(fx_in.item)>>
    /\ UNCHANGED <<argVars, archiveVars, oddLeft, now, cache, scanVars, calls, fx_in>>

NextDate == ApplyParseDate

SpecDate == InitDate /\ [][NextDate]_vars

(***************************************************************************)
(* filter_exact_month_day alone, applied to a result list and again to     *)
(* its own output                                                          *)
(***************************************************************************)
MaxResults == 3

\* the records the lists are made of, each with the date it stands for:
\* dated in the date field, in an aka URL only, in the url only, not at
\* all, by the url behind an unparseable date field, by the date field
\* against the url, in a published field; and a JSON string
FilterPool ==
    << Src(MkRecord(DateOptions[2], PublishedOptions[1], AkaOptions[1], UrlOptions[1]),
           PyDate(DATE_OF_DATE)),
       Src(MkRecord(DateOptions[1], PublishedOptions[1], AkaOptions[2], UrlOptions[1]),
           PyDate(DATE_OF_AKA)),
       Src(MkRecord(DateOptions[1], PublishedOptions[1], AkaOptions[1], UrlOptions[2]),
           PyDate(DATE_OF_URL)),
       Src(MkRecord(DateOptions[1], PublishedOptions[1], AkaOptions[1], UrlOptions[1]),
           None),
       Src(MkRecord(DateOptions[5], PublishedOptions[1], AkaOptions[1], UrlOptions[2]),
           PyDate(DATE_OF_URL)),
       Src(MkRecord(DateOptions[2], PublishedOptions[1], AkaOptions[1], UrlOptions[2]),
           PyDate(DATE_OF_DATE)),
       Src(MkRecord(DateOptions[1], PublishedOptions[3], AkaOptions[1], UrlOptions[1]),
           PyDate(DATE_OF_PUBLISHED_2)),
       Src(PyStr(<<"x">>), None) >>

FilterTargets == { <<7, 4>>, <<7, 5>>, <<1, 1>> }

\* the result list that holds the records of the given places of the pool
ResultsOf(ixs) == [i \in 1..Len(ixs) |-> FilterPool[ixs[i]].val]

InitFilter ==
    /\ InitProgram
    /\ matchYears = {} /\ hitShape = 1 /\ oddIx = 1 /\ oddLeft = 0
    /\ blocked = FALSE /\ latency = FastLatency
    /\ fx_in \in {[ixs |-> ixs, month |-> t[1], day |-> t[2]] :
                    ixs \in UNION {[1..n -> 1..Len(FilterPool)] : n \in 0..MaxResults},
                    t \in FilterTargets}
    /\ fx_out = <<>>

\* lines 187-193, on the list and then on what it returned
ApplyFilter ==
    /\ fx_out = <<>>
    /\ \E once \in {filter_exact_month_day(ResultsOf(fx_in.ixs), fx_in.month, fx_in.day)} :
         fx_out' = <<[once |-> once,
                      twice |-> IF IsRaised(once) THEN once
                                ELSE filter_exact_month_day(once[2], fx_in.month, fx_in.day)]>>
    /\ UNCHANGED <<argVars, archiveVars, oddLeft, now, cache, scanVars, calls, fx_in>>

NextFilter == ApplyFilter

SpecFilter == InitFilter /\ [][NextFilter]_vars

(***************************************************************************)
(* Properties of the scan, stated over its history                         *)
(***************************************************************************)
Finished == pc \in {"returned", "raised"}
IsQuery(i) == trace[i].op = "query"
QueryIxs == {i \in 1..Len(trace) : IsQuery(i)}
\* the run was answered from the archive's content alone
ContentOnly == ~blocked /\ \A i \in QueryIxs : ~trace[i].odd
\* the answer the archive gives out of character in this run
Odd == OddResponses[oddIx]
MaxOf(S) == CHOOSE x \in S : \A z \in S : z <= x
AnchorYears == {a \in 1690..1960 : (a % 10) = 0}
DecadeMatches(a) == {z \in matchYears : a <= z /\ z <= a + 9 /\ z <= 1963}

SuccessShape ==
    /\ ret[2].year[1] = "int"
    /\ ret[2].item[1] = "dict"
    /\ ret[2].url[1] = "url"
    /\ ret[2].count[2] >= 1
    /\ ret[2].win[1] # <<>> /\ ret[2].win[2] # <<>>
FailureShape ==
    /\ ret[2].year = None
    /\ ret[2].item = None
    /\ ret[2].url = PyStr(<<>>)
    /\ ret[2].count = PyInt(0)
    /\ ret[2].win = << <<>>, <<>> >>

\* C1: for every sequence of archive responses the scan returns either a
\* success tuple (year, record and URL present, count >= 1, a window) or a
\* failure tuple (None, None, "", count 0, empty window).
C1_ReturnsSuccessOrFailure ==
    Finished => (pc = "returned" /\ (SuccessShape \/ FailureShape))

\* C2: if some year of the range has an exact match the scan returns the
\* greatest such year, and it returns no result only when there is none.
C2_MostRecentYear ==
    (pc = "returned" /\ ContentOnly) =>
        ret[2].year = (IF matchYears = {} THEN None ELSE PyInt(MaxOf(matchYears)))

\* C2 as amended: the scan returns the greatest matching year of the decade
\* [A, min(A + 9, 1963)] of the most recent decade anchor A that has an
\* exact match, and no result exactly when no decade anchor has one.
C2_MostRecentYearOfAnchoredDecade ==
    /\ ContentOnly => pc # "raised"
    /\ (pc = "returned" /\ ContentOnly) =>
         ret[2].year = (IF matchYears \cap AnchorYears = {} THEN None
                       ELSE PyInt(MaxOf(DecadeMatches(MaxOf(matchYears \cap AnchorYears)))))
C2_Witness ==
    /\ pc = "returned" /\ ContentOnly
    /\ matchYears = {1955, 1950}
    /\ ret[2].year = PyInt(1955)

Phase2Ixs == {i \in QueryIxs : trace[i].phase = 2}
AskedNoHit(z) == \E i \in Phase2Ixs : trace[i].year = z /\ trace[i].out \in {"miss", "fail"}

\* C3: once Phase 1 has stopped at anchor A, Phase 2 returns the greatest
\* year of [A, min(A + 9, 1963)] whose query yields an exact match, and
\* asks for no year outside that decade.
C3_Phase2Refines ==
    (Finished /\ hit_decade_start # None) =>
        LET a == hit_decade_start[2]
            hi == IF a + 9 < 1963 THEN a + 9 ELSE 1963
        IN /\ pc = "returned"
           /\ \A i \in Phase2Ixs : a <= trace[i].year /\ trace[i].year <= hi
           /\ IF ret[2].year = None
              THEN \A z \in a..hi : AskedNoHit(z)
              ELSE /\ ret[2].year[2] \in a..hi
                   /\ \E i \in Phase2Ixs : trace[i].year = ret[2].year[2] /\ trace[i].out = "hit"
                   /\ \A z \in (ret[2].year[2] + 1)..hi : AskedNoHit(z)

\* C4: with no exact match anywhere a scan asks once for each decade anchor
\* from 1960 down to 1690, makes no Phase 2 query and returns no result.
C4_OneQueryPerAnchor ==
    (Finished /\ matchYears = {}) =>
        /\ pc = "returned" /\ ret[2].year = None
        /\ Cardinality(QueryIxs) = 28
        /\ \A i \in QueryIxs : trace[i].phase = 1
        /\ \A k \in 1..28 : \E i \in QueryIxs :
              /\ trace[i].year = 1970 - 10 * k
              /\ Cardinality({j \in QueryIxs : j < i}) = k - 1

\* after the failed query at position i of the history the scan pauses and
\* goes on with the next year of its loop, or ends the loop it has exhausted
Continues(i) ==
    IF i = Len(trace) THEN pc \in {"sleep1", "sleep2"}
    ELSE /\ trace[i + 1].op = "sleep"
         /\ IF i + 1 = Len(trace)
            THEN \/ pc \in {"phase1", "phase2"}
                 \/ /\ pc = "returned"
                    /\ ret[2].year = None
                    /\ trace[i].year = (IF trace[i].phase = 1 THEN 1690 ELSE hit_decade_start[2])
            ELSE /\ IsQuery(i + 2)
                 /\ trace[i + 2].phase = trace[i].phase
                 /\ trace[i + 2].year = trace[i].year - (IF trace[i].phase = 1 THEN 10 ELSE 1)
FailuresContinue == \A i \in QueryIxs : trace[i].out = "fail" => Continues(i)
LastDiagnosticSurfaced == (pc = "returned" /\ ret[2].year = None) => ret[2].dbg = lastDiag
AllHttpError == blocked /\ Odd.raises = "HTTPError"

\* C5: a fetch failure counts as zero matches and the scan goes on; a scan
\* that ends with no result returns the diagnostic of its last query; if
\* every request gets HTTP 429 that diagnostic has status 429 and a snippet.
C5_FailuresSkipped ==
    /\ FailuresContinue
    /\ LastDiagnosticSurfaced
    /\ (pc = "returned" /\ AllHttpError) =>
          /\ ret[2].year = None
          /\ ret[2].dbg[2].status = PyInt(429)
          /\ ret[2].dbg[2].snippet # None

\* C5 as amended: the diagnostic carries a snippet when the body of the
\* error response could be read, and none when it could not.
C5_FailuresSkippedSnippetIfReadable ==
    /\ FailuresContinue
    /\ LastDiagnosticSurfaced
    /\ (pc = "returned" /\ AllHttpError) =>
          /\ ret[2].year = None
          /\ ret[2].dbg[2].status = PyInt(429)
          /\ (ret[2].dbg[2].snippet # None) = Odd.read_ok
C5_Witness ==
    /\ pc = "returned" /\ AllHttpError /\ Odd.read_ok
    /\ Cardinality(QueryIxs) = 28
    /\ ret[2].dbg[2].snippet # None

(***************************************************************************)
(* Properties of the fetcher and of its cache                              *)
(***************************************************************************)
\* the media types of ContentTypes that name JSON
JsonContentTypes == {APPLICATION_JSON, APPLICATION_JSON_CAPS}

\* the outcome a response calls for, by the priority of the classification
ExpectedOutcome(resp) ==
    IF resp.raises \in TransportErrors THEN "transport failure"
    ELSE IF resp.raises = "HTTPError" THEN "HTTP error"
    ELSE IF resp.content_type \notin JsonContentTypes THEN "unexpected content type"
    ELSE IF resp.body.doc = NotJson THEN "JSON parse failure"
    ELSE "success"

\* the outcome a returned (payload, debug) reports
ReportedOutcome(out) ==
    IF out.debug.ok THEN "success"
    ELSE IF out.debug.error = None THEN "none"
    ELSE IF out.debug.error[2].kind = "HTTPError" THEN "HTTP error"
    ELSE IF out.debug.error[2].kind = "Non-JSON response" THEN "unexpected content type"
    ELSE IF out.debug.error[2].kind = "JSON parse failed" THEN "JSON parse failure"
    ELSE "transport failure"

\* C6: fetch_json_debug reports the one outcome the priority transport
\* failure (no status) > HTTP error (status recorded) > non-JSON content
\* type > unparseable body > success calls for; it returns a payload and
\* sets ok only on success; a 200 response of type text/html is reported
\* as an unexpected content type whatever its body.
C6_ClassifiedByPriority ==
    fx_out # <<>> =>
        LET resp == fx_in.resp
            out == fx_out[1]
            want == ExpectedOutcome(resp)
        IN /\ ReportedOutcome(out) = want
           /\ out.debug.ok = (want = "success")
           /\ out.payload # None => want = "success"
           /\ want = "success" => out.payload = resp.body.doc /\ out.debug.error = None
           /\ want = "transport failure" => out.debug.status = None
           /\ want # "transport failure" => out.debug.status = PyInt(resp.status)
           /\ (resp.raises = "none" /\ resp.content_type = TEXT_HTML) =>
                 /\ out.debug.error[2].kind = "Non-JSON response"
                 /\ out.debug.snippet = TextPrefix(resp.body, 800)
C6_Witness ==
    /\ fx_out # <<>>
    /\ fx_in.resp.raises = "none" /\ fx_in.resp.status = 200
    /\ fx_in.resp.content_type = TEXT_HTML
    /\ fx_in.resp.body.doc = PyList(<<PyInt(1)>>)
    /\ fx_out[1].debug.error[2].kind = "Non-JSON response"
    /\ fx_out[1].payload = None

\* the calls before call i for the same request URL
EarlierCalls(i) == {j \in 1..(i - 1) : calls[j].url = calls[i].url}
\* those of them that went to the network
EarlierFetches(i) == {j \in EarlierCalls(i) : calls[j].net}

\* the fetch whose cache entry call j stored or was served from
EntryOf(j) ==
    IF calls[j].net \/ EarlierFetches(j) = {} THEN j ELSE MaxOf(EarlierFetches(j))
\* when that entry expires: 30 minutes after it was stored
ExpiryOf(j) == calls[EntryOf(j)].done + TTL

\* C7: of two calls for the same request URL, the second made while the
\* cache entry of the first is within its 30 minutes returns the outcome
\* the first observed, success or failure, without a network call; a call
\* goes to the network only when every earlier entry for its URL has
\* expired.
C7_CachedWithinWindow ==
    \A i \in 1..Len(calls) :
        /\ \A j \in EarlierCalls(i) :
              calls[i].at < ExpiryOf(j) => (~calls[i].net /\ calls[i].res = calls[j].res)
        /\ calls[i].net => \A j \in EarlierCalls(i) : calls[i].at >= ExpiryOf(j)
C7_Witness ==
    /\ Len(calls) = 3
    /\ calls[2].url = calls[1].url /\ calls[3].url = calls[1].url
    /\ calls[1].net /\ ~calls[1].res.debug.ok
    /\ ~calls[2].net /\ calls[2].res = calls[1].res /\ calls[2].at > calls[1].done
    /\ calls[3].net /\ calls[3].res.debug.ok

\* C8: a pause separates every two consecutive requests of a scan, across
\* the boundary between the phases too.
C8_PauseBetweenRequests ==
    \A i \in 1..(Len(trace) - 1) : ~(IsQuery(i) /\ IsQuery(i + 1))

\* C9: a year whose fetch failed is never requested again in the scan.
C9_NoRetry ==
    \A i \in QueryIxs : \A j \in QueryIxs :
        (i < j /\ trace[i].out = "fail") => trace[j].year # trace[i].year
C9_Witness ==
    /\ pc = "returned"
    /\ ret[2].year # None
    /\ \E i \in QueryIxs : trace[i].out = "fail" /\ trace[i].phase = 1
    /\ \E i \in QueryIxs : trace[i].phase = 2

\* C10: over any successfully parsed payload the step extracts the result
\* list without raising and goes on as a zero-or-more-hits outcome.
C10_PayloadNeverRaises ==
    /\ pc # "raised"
    /\ \A i \in QueryIxs : trace[i].out # "raise"

(***************************************************************************)
(* make_window applied once (lines 260-274)                                *)
(***************************************************************************)
\* the years a scan may ask for
WindowYears == (SCAN_STOP + 1)..CEILING_YEAR
WindowMonths == 1..12
WindowDays == 1..31

InitWindow ==
    /\ InitProgram
    /\ matchYears = {} /\ hitShape = 1 /\ oddIx = 1 /\ oddLeft = 0
    /\ blocked = FALSE /\ latency = FastLatency
    /\ fx_in \in [year : WindowYears, month : WindowMonths, day : WindowDays]
    /\ fx_out = <<>>

ApplyMakeWindow ==
    /\ fx_out = <<>>
    /\ fx_out' = <<make_window(fx_in.year, fx_in.month, fx_in.day, WINDOW_DAYS)>>
    /\ UNCHANGED <<argVars, archiveVars, oddLeft, now, cache, scanVars, calls, fx_in>>

NextWindow == ApplyMakeWindow

SpecWindow == InitWindow /\ [][NextWindow]_vars

(***************************************************************************)
(* build_query_url applied once (lines 30-60)                              *)
(***************************************************************************)
UrlStates == {"ALL", "", "all", "california"}
UrlKeywords ==
    { <<>>, <<" ">>, <<" ", " ">>, <<"c", "a", "t">>,
      <<" ", "c", "a", "t", " ">>, <<"a", " ", " ", "b">> }
UrlCounts == {0 - 3, 0, 1, 25, 100, 500}
UrlDls == {"page", "title"}

InitUrl ==
    /\ InitProgram
    /\ matchYears = {} /\ hitShape = 1 /\ oddIx = 1 /\ oddLeft = 0
    /\ blocked = FALSE /\ latency = FastLatency
    /\ fx_in \in {[start_date |-> query_window(y)[1], end_date |-> query_window(y)[2],
                   state |-> st, keyword |-> kw, front_pages_only |-> fpo,
                   dl |-> dl, count |-> c] :
                      y \in FetchYears, st \in UrlStates, kw \in UrlKeywords,
                      fpo \in BOOLEAN, dl \in UrlDls, c \in UrlCounts}
    /\ fx_out = <<>>

ApplyBuildUrl ==
    /\ fx_out = <<>>
    /\ fx_out' = <<build_query_url(fx_in.start_date, fx_in.end_date, fx_in.state,
                                   fx_in.keyword, fx_in.front_pages_only,
                                   fx_in.dl, fx_in.count)>>
    /\ UNCHANGED <<argVars, archiveVars, oddLeft, now, cache, scanVars, calls, fx_in>>

NextUrl == ApplyBuildUrl

SpecUrl == InitUrl /\ [][NextUrl]_vars

(***************************************************************************)
(* Properties of the result interpreter                                    *)
(***************************************************************************)
\* the places of a list whose record stands for a date of the month and day
DatedPlaces(ixs, m, d) ==
    LET Keep(i) == /\ FilterPool[i].date # None
                   /\ FilterPool[i].date[2][2] = m
                   /\ FilterPool[i].date[2][3] = d
    IN SelectSeq(ixs, Keep)

\* C11: the filter returns, in the original order, exactly the records
\* whose derived date has the target month and day; filtering its output
\* again returns the identical list; a record without a parseable date is
\* left out and nothing is raised.
C11_FilterIdempotent ==
    fx_out # <<>> =>
        /\ ~IsRaised(fx_out[1].once)
        /\ fx_out[1].once = PyList(ResultsOf(DatedPlaces(fx_in.ixs, fx_in.month, fx_in.day)))
        /\ fx_out[1].twice = fx_out[1].once

\* the date of the first source, in the order given, that stands for one
RECURSIVE FirstDated(_)
FirstDated(want) ==
    IF want = <<>> THEN None
    ELSE IF Head(want) # None THEN Head(want)
    ELSE FirstDated(Tail(want))

\* C12: for a record that is a JSON object parse_item_date returns the date
\* of the first source, in the order date field > published date fields >
\* aka URLs > item URL, that yields a valid calendar date, and None when no
\* source yields one.
C12_FirstDatedSource ==
    (fx_out # <<>> /\ fx_in.item[1] = "dict") => fx_out[1] = FirstDated(fx_in.want)
\* a record dated in its url only, and one whose date field and url differ
C12_Witness ==
    /\ fx_out # <<>>
    /\ fx_in.item[1] = "dict"
    /\ \/ /\ DOMAIN fx_in.item[2] = {"url", "title"}
          /\ fx_in.item[2].url = PyStr(UrlPath(DATE_OF_URL))
          /\ fx_out[1] = PyDate(DATE_OF_URL)
       \/ /\ DOMAIN fx_in.item[2] = {"date", "url", "title"}
          /\ fx_in.item[2].date = PyStr(IsoFormat(DATE_OF_DATE))
          /\ fx_in.item[2].url = PyStr(UrlPath(DATE_OF_URL))
          /\ fx_out[1] = PyDate(DATE_OF_DATE)

(***************************************************************************)
(* Properties of the query encoder                                         *)
(***************************************************************************)
ParamNames(url) == {url.params[i][1] : i \in 1..Len(url.params)}
ParamValues(url, name) ==
    {url.params[i][2] : i \in {j \in 1..Len(url.params) : url.params[j][1] = name}}
KEYWORD_PARAMS == {"qs", "ops", "searchType"}

\* C13: qs, ops and searchType are all present if and only if the keyword
\* holds a character that is not whitespace, and none of them is otherwise;
\* location_state is present iff the state is neither "ALL" nor empty;
\* front_pages_only is present, as true, iff the flag is true; fo, dl,
\* start_date, end_date and c are always present.
C13_ParametersPresent ==
    fx_out # <<>> =>
        LET names == ParamNames(fx_out[1])
            worded == \E i \in 1..Len(fx_in.keyword) : fx_in.keyword[i] # " "
        IN /\ (KEYWORD_PARAMS \cap names) = (IF worded THEN KEYWORD_PARAMS ELSE {})
           /\ ("location_state" \in names) <=> (fx_in.state \notin {"ALL", ""})
           /\ ("front_pages_only" \in names) <=> fx_in.front_pages_only
           /\ fx_in.front_pages_only => ParamValues(fx_out[1], "front_pages_only") = {"true"}
           /\ {"fo", "dl", "start_date", "end_date", "c"} \subseteq names
\* a keyword between blanks with a state and without the front page flag,
\* and a blank keyword with the empty state
C13_Witness ==
    /\ fx_out # <<>>
    /\ \/ /\ fx_in.keyword = <<" ", "c", "a", "t", " ">>
          /\ fx_in.state = "california"
          /\ ~fx_in.front_pages_only
          /\ ParamNames(fx_out[1]) = {"fo", "dl", "start_date", "end_date", "c",
                                       "qs", "ops", "searchType", "location_state"}
       \/ /\ fx_in.keyword = <<" ", " ">>
          /\ fx_in.state = ""
          /\ fx_in.front_pages_only
          /\ ParamNames(fx_out[1]) = {"fo", "dl", "start_date", "end_date", "c",
                                       "front_pages_only"}

(***************************************************************************)
(* Properties of the window builder                                        *)
(***************************************************************************)
\* the number of days from 0001-01-01 to a date, counted by the calendar rule
LeapYearsBefore(y) == ((y - 1) \div 4) - ((y - 1) \div 100) + ((y - 1) \div 400)
MonthLengths(y) == <<31, IF IsLeap(y) THEN 29 ELSE 28, 31, 30, 31, 30, 31, 31, 30, 31, 30, 31>>
RECURSIVE DaysBeforeMonth(_, _)
DaysBeforeMonth(y, m) ==
    IF m = 1 THEN 0 ELSE DaysBeforeMonth(y, m - 1) + MonthLengths(y)[m - 1]
Ordinal(dte) == 365 * (dte[1] - 1) + LeapYearsBefore(dte[1]) + DaysBeforeMonth(dte[1], dte[2]) + dte[3]

\* C14: for a year of the searchable range, a month in 1..12 and a day in
\* 1..31, both ends of the window are valid calendar dates, start <= end,
\* start is 3 days before and end 3 days after a center that lies in the
\* requested month and year, on the requested day or, when the month is
\* shorter, on its last day.
C14_WindowAroundClampedDay ==
    fx_out # <<>> =>
        LET start == FromIsoFormat(fx_out[1][1])
            end == FromIsoFormat(fx_out[1][2])
            last == MonthLengths(fx_in.year)[fx_in.month]
            center == <<fx_in.year, fx_in.month, IF fx_in.day > last THEN last ELSE fx_in.day>>
        IN /\ start # None /\ end # None
           /\ ValidDate(start[2][1], start[2][2], start[2][3])
           /\ ValidDate(end[2][1], end[2][2], end[2][3])
           /\ Ordinal(start[2]) = Ordinal(center) - WINDOW_DAYS
           /\ Ordinal(end[2]) = Ordinal(center) + WINDOW_DAYS
           /\ Ordinal(start[2]) <= Ordinal(end[2])
\* 29 February asked of a year that has none
C14_Witness ==
    /\ fx_out # <<>>
    /\ fx_in = [year |-> 1900, month |-> 2, day |-> 29]
    /\ fx_out[1] = <<IsoFormat(<<1900, 2, 25>>), IsoFormat(<<1900, 3, 3>>)>>

(***************************************************************************)
(* Properties of the order of a scan's requests                            *)
(***************************************************************************)
IsPhase1Query(e) == e.op = "query" /\ e.phase = 1
IsPhase2Query(e) == e.op = "query" /\ e.phase = 2
Phase1Queries == SelectSeq(trace, IsPhase1Query)
Phase2Queries == SelectSeq(trace, IsPhase2Query)

ProbesInOrder ==
    LET p1 == Phase1Queries
        p2 == Phase2Queries
    IN /\ \A k \in 1..Len(p1) : p1[k].year = 1960 - 10 * (k - 1)
       /\ \A k \in 1..(Len(p1) - 1) : p1[k].out # "hit"
       /\ \A i \in QueryIxs : \A j \in QueryIxs :
             (trace[i].phase = 1 /\ trace[j].phase = 2) => i < j
       /\ p2 # <<>> =>
             /\ p1 # <<>> /\ p1[Len(p1)].out = "hit"
             /\ LET a == p1[Len(p1)].year
                    top == IF a + 9 < 1963 THEN a + 9 ELSE 1963
                IN \A k \in 1..Len(p2) : p2[k].year = top - (k - 1) /\ p2[k].year >= a
       /\ \A k \in 1..(Len(p2) - 1) : p2[k].out # "hit"
       /\ \A i \in QueryIxs : 1690 <= trace[i].year /\ trace[i].year <= 1963
\* a step of the scan makes at most one request, and a request is made only
\* from the one position the scan is at
OneRequestAtATime ==
    /\ Len(trace') <= Len(trace) + 1
    /\ Len(trace') = Len(trace) + 1 /\ trace'[Len(trace')].op = "query"
          => pc \in {"phase1", "phase2"} /\ trace'[Len(trace')].year = loop_years[idx]

\* C15: Phase 1 asks for 1960, 1950, ... in steps of exactly 10 and asks for
\* no anchor after one with an exact match; Phase 2 asks only after Phase 1
\* has ended on a match at A, for min(A + 9, 1963) down to A in steps of 1,
\* and asks for no year after one with a match; requests are made one at a
\* time and every year asked for lies in [1690, 1963].
C15_ProbeOrder == [](ProbesInOrder) /\ [][OneRequestAtATime]_vars
\* a scan that asked for several anchors and then for several years of a decade
C15_Witness ==
    /\ pc = "returned"
    /\ ret[2].year # None
    /\ Len(Phase1Queries) >= 2
    /\ Len(Phase2Queries) >= 3

(***************************************************************************)
(* Termination and the number of requests                                  *)
(***************************************************************************)
\* C16: every scan that was started ends, and at no time has it made more
\* than 28 + 10 requests, whatever the archive answers.
C16_TerminatesWithinBound ==
    /\ [](Cardinality(QueryIxs) <= 28 + 10)
    /\ (pc # "idle") ~> Finished
\* a scan that found its only match at the last anchor: 28 + 10 requests
C16_Witness ==
    /\ pc = "returned"
    /\ Cardinality(QueryIxs) = 28 + 10

(***************************************************************************)
(* Properties of the record a scan returns                                 *)
(***************************************************************************)
Succeeded == pc = "returned" /\ ret[2].year # None
\* the result list of the answer the scan's last query was given: the cache
\* entry of the returned URL, stored or read by that query
ReturnedResults == cache[ret[2].url[2]].value.payload[2].results[2]
DerivedDate(item) == parse_item_date(item)
OnTargetDay(item) ==
    /\ DerivedDate(item)[1] = "date"
    /\ DerivedDate(item)[2][2] = month
    /\ DerivedDate(item)[2][3] = day
Matching == {i \in 1..Len(ReturnedResults) : OnTargetDay(ReturnedResults[i])}
LastQuery == trace[MaxOf(QueryIxs)]

\* C17: on success the record returned is the first record of the matched
\* year's result list, in the archive's order, whose derived month and day
\* are the target's; the count is the number of such records in that list;
\* the URL and the window are those of the query for the matched year, which
\* is the last query of the scan.
C17_FirstExactOfMatchedYear ==
    Succeeded =>
        /\ LastQuery.year = ret[2].year[2] /\ LastQuery.out = "hit"
        /\ ret[2].url[2] = query_url(ret[2].year[2])
        /\ ret[2].win = make_window(ret[2].year[2], month, day, 3)
        /\ Matching # {}
        /\ \E i \in Matching :
              /\ \A j \in Matching : i <= j
              /\ ret[2].item = ReturnedResults[i]
        /\ ret[2].count = PyInt(Cardinality(Matching))
\* a matched year whose list holds a record of another day and then two
\* records of the target day
C17_Witness ==
    /\ Succeeded
    /\ Len(ReturnedResults) = 3
    /\ Matching = {2, 3}
    /\ ret[2].item = ReturnedResults[2]

\* The fetch layer answered identical URLs identically: a year asked for a
\* second time was answered from the cache or from the archive's content,
\* which is what the first request for it was answered from when it matched.
SameAnswerForSameUrl ==
    \A j \in QueryIxs :
        (\E i \in QueryIxs : i < j /\ trace[i].year = trace[j].year) => ~trace[j].odd

\* C18: if identical URLs were answered identically during the scan, a scan
\* whose Phase 1 found anchor A returns a match with a year in
\* [A, min(A + 9, 1963)].
C18_Phase2AlwaysMatches ==
    (Finished /\ hit_decade_start # None /\ SameAnswerForSameUrl) =>
        /\ pc = "returned"
        /\ ret[2].year # None
        /\ hit_decade_start[2] <= ret[2].year[2]
        /\ ret[2].year[2] <= hit_decade_start[2] + 9
        /\ ret[2].year[2] <= 1963

\* C19: whenever a scan returns a matched year Y with a record, the derived
\* date of the record is (Y, target month, target day).
C19_RecordOfReturnedYear ==
    Succeeded => DerivedDate(ret[2].item) = PyDate(<<ret[2].year[2], month, day>>)

====
